---- MODULE Spec2Model ----
(***************************************************************************)
(* SAFE tag computation (crates/script/src/main.rs).                       *)
(*                                                                         *)
(* One run of the demo driver: a hex literal is decoded by hex_to_bytes    *)
(* into the 64-byte domain separator, then compute_tag aggregates the      *)
(* io_pattern word by word, flushes the pending run, serializes the        *)
(* aggregated words big-endian, appends the separator and hands the buffer *)
(* to SHA-256.                                                             *)
(*                                                                         *)
(* A u32 is the record [msb, low]: msb is bit 31 and low is bits 0..30, so *)
(* its value is msb * 2^31 + low.  The split is the one the code makes     *)
(* with its two masks (0x80000000 and 0x7FFFFFFF), and it keeps every      *)
(* number the model computes within 31 bits.                               *)
(*                                                                         *)
(* SHA-256 is not modelled: hash_input is the buffer given to              *)
(* hasher.update, and the tag is a deterministic function of it.           *)
(***************************************************************************)
EXTENDS Integers, Sequences, FiniteSets, TLC

VARIABLES
    hex,                  \* main: the literal given to hex_to_bytes
    io_pattern,           \* compute_tag's io_pattern (line 17)
    overflow_checks,      \* the build: TRUE when u32 `+=` panics on overflow, FALSE when it wraps
    domain_separator,     \* compute_tag's domain_separator (line 17), << >> until decoded
    idx,                  \* position of the for loop of line 24, from 1
    encoded_words,        \* line 19
    current_absorb_sum,   \* line 20
    current_squeeze_sum,  \* line 21
    last_was_absorb,      \* line 22
    input_bytes,          \* line 71
    hash_input,           \* the bytes given to hasher.update (line 83)
    pc                    \* "hex_to_bytes", "aggregate", "serialize", "hash", "done", "panicked"

vars == <<hex, io_pattern, overflow_checks, domain_separator, idx,
          encoded_words, current_absorb_sum, current_squeeze_sum,
          last_was_absorb, input_bytes, hash_input, pc>>

(***************************************************************************)
(* Bounds                                                                  *)
(***************************************************************************)
MaxPatternLen == 3

(***************************************************************************)
(* u32 arithmetic                                                          *)
(***************************************************************************)
LengthMask == 2147483647

U32(m, l) == [msb |-> m, low |-> l]

ABSORB_FLAG == U32(1, 0)

SQUEEZE_FLAG == U32(0, 0)

ZeroU32 == U32(0, 0)

\* x > 0 on u32
GtZero(x) == x.msb = 1 \/ x.low > 0

\* x & ABSORB_FLAG: keeps bit 31 only
AndAbsorbFlag(x) == U32(x.msb, 0)

\* x & 0x7FFFFFFF: clears bit 31
AndLengthMask(x) == U32(0, x.low)

\* flag | x, for flag one of the two flag constants (low bits all zero)
OrFlag(flag, x) == U32(IF flag.msb = 1 THEN 1 ELSE x.msb, x.low)

\* a + b on u32: the wrapped 32-bit sum, and whether the true sum left 32 bits
AddU32(a, b) ==
    LET carry == IF a.low > LengthMask - b.low THEN 1 ELSE 0
        low   == IF carry = 1 THEN a.low - (LengthMask - b.low) - 1
                              ELSE a.low + b.low
        top   == a.msb + b.msb + carry
    IN  [val |-> U32(top % 2, low), overflow |-> top >= 2]

\* variants: least significant byte first; bit 31 left out
to_be_bytes_LittleEndian(w) ==
    << w.low % 256,
       (w.low \div 256) % 256,
       (w.low \div 65536) % 256,
       w.msb * 128 + (w.low \div 16777216) >>

to_be_bytes_LengthOnly(w) ==
    << w.low \div 16777216,
       (w.low \div 65536) % 256,
       (w.low \div 256) % 256,
       w.low % 256 >>

\* u32::to_be_bytes
to_be_bytes(w) ==
    << w.msb * 128 + (w.low \div 16777216),
       (w.low \div 65536) % 256,
       (w.low \div 256) % 256,
       w.low % 256 >>

(***************************************************************************)
(* hex_to_bytes                                                            *)
(***************************************************************************)
SeparatorLen == 64

HexDigits ==
    [c \in {"0","1","2","3","4","5","6","7","8","9",
            "a","b","c","d","e","f","A","B","C","D","E","F"} |->
        CASE c = "0" -> 0  [] c = "1" -> 1  [] c = "2" -> 2  [] c = "3" -> 3
          [] c = "4" -> 4  [] c = "5" -> 5  [] c = "6" -> 6  [] c = "7" -> 7
          [] c = "8" -> 8  [] c = "9" -> 9
          [] c \in {"a","A"} -> 10 [] c \in {"b","B"} -> 11
          [] c \in {"c","C"} -> 12 [] c \in {"d","D"} -> 13
          [] c \in {"e","E"} -> 14 [] c \in {"f","F"} -> 15]

\* hex.replace("0x", ""): every occurrence of "0x" is removed.  Two occurrences
\* never overlap, so the string is cut where no occurrence straddles the cut
\* and the two parts are cleaned on their own.
RECURSIVE Replace0x(_)
Replace0x(s) ==
    IF Len(s) <= 2
    THEN IF s = <<"0", "x">> THEN << >> ELSE s
    ELSE LET mid == Len(s) \div 2
             cut == IF s[mid] = "0" /\ s[mid + 1] = "x" THEN mid + 1 ELSE mid
         IN  Replace0x(SubSeq(s, 1, cut)) \o Replace0x(SubSeq(s, cut + 1, Len(s)))

\* hex_clean.as_bytes().chunks(2): chunk i (0-based), the last one may hold one character
Chunk(s, i) == SubSeq(s, 2 * i + 1, IF 2 * i + 2 <= Len(s) THEN 2 * i + 2 ELSE Len(s))

NumChunks(s) == (Len(s) + 1) \div 2

\* u8::from_str_radix(chunk, 16) succeeds
ChunkOk(c) == \A k \in 1..Len(c) : c[k] \in DOMAIN HexDigits

ChunkVal(c) == IF Len(c) = 1 THEN HexDigits[c[1]]
               ELSE 16 * HexDigits[c[1]] + HexDigits[c[2]]

\* a variant that returns only the decoded bytes, without the zero fill
hex_to_bytes_Unpadded(h) ==
    LET hex_clean == Replace0x(h)
        used      == IF NumChunks(hex_clean) < SeparatorLen THEN NumChunks(hex_clean)
                     ELSE SeparatorLen
        ok        == \A i \in 0..(used - 1) : ChunkOk(Chunk(hex_clean, i))
    IN  [ok    |-> ok,
         bytes |-> IF ok THEN [i \in 1..used |-> ChunkVal(Chunk(hex_clean, i - 1))]
                   ELSE << >>]

\* [ok |-> no unwrap panicked, bytes |-> the 64-byte array returned]
hex_to_bytes(h) ==
    LET hex_clean == Replace0x(h)
        used      == IF NumChunks(hex_clean) < SeparatorLen THEN NumChunks(hex_clean)
                     ELSE SeparatorLen
        ok        == \A i \in 0..(used - 1) : ChunkOk(Chunk(hex_clean, i))
    IN  [ok    |-> ok,
         bytes |-> IF ok
                   THEN [i \in 1..SeparatorLen |->
                            IF i <= used THEN ChunkVal(Chunk(hex_clean, i - 1)) ELSE 0]
                   ELSE << >>]

(***************************************************************************)
(* compute_tag, aggregation loop                                           *)
(***************************************************************************)
InitAgg ==
    [encoded_words       |-> << >>,
     current_absorb_sum  |-> ZeroU32,
     current_squeeze_sum |-> ZeroU32,
     last_was_absorb     |-> FALSE,
     panicked            |-> FALSE]

\* a variant that restarts the sum instead of adding to it
AddAssign_Overwrite(st, field, length, checks) == [st EXCEPT ![field] = length]

\* `sum += length`: with overflow checks a sum leaving 32 bits panics, without them it wraps
AddAssign(st, field, length, checks) ==
    LET r == AddU32(st[field], length)
    IN  IF r.overflow /\ checks
        THEN [st EXCEPT !.panicked = TRUE]
        ELSE [st EXCEPT ![field] = r.val]

\* a variant without the `sum > 0` test
FlushPrevious_Unguarded(words, flag, sum) == Append(words, OrFlag(flag, sum))

\* `if sum > 0 { encoded_words.push(FLAG | sum); }`: the pending run becomes one word

FlushPrevious(words, flag, sum) ==
    IF GtZero(sum) THEN Append(words, OrFlag(flag, sum)) ELSE words

\* a variant that flushes the SQUEEZE run and leaves its sum standing
StartAbsorbRun_NoReset(st, length) ==
    [st EXCEPT
       !.encoded_words = FlushPrevious(@, SQUEEZE_FLAG, st.current_squeeze_sum),
       !.current_absorb_sum = length]

\* "Start new ABSORB sequence": flush and clear the SQUEEZE run, open an ABSORB run

StartAbsorbRun(st, length) ==
    [st EXCEPT
       !.encoded_words = FlushPrevious(@, SQUEEZE_FLAG, st.current_squeeze_sum),
       !.current_squeeze_sum = IF GtZero(@) THEN ZeroU32 ELSE @,
       !.current_absorb_sum = length]

\* "Start new SQUEEZE sequence": flush and clear the ABSORB run, open a SQUEEZE run
StartSqueezeRun(st, length) ==
    [st EXCEPT
       !.encoded_words = FlushPrevious(@, ABSORB_FLAG, st.current_absorb_sum),
       !.current_absorb_sum = IF GtZero(@) THEN ZeroU32 ELSE @,
       !.current_squeeze_sum = length]

\* one iteration of `for &encoded_word in io_pattern`
ProcessWord(st, encoded_word, checks) ==
    IF ~GtZero(encoded_word) THEN st
    ELSE
      LET is_absorb == GtZero(AndAbsorbFlag(encoded_word))
          length    == AndLengthMask(encoded_word)
      IN  IF is_absorb
          THEN LET s == IF st.last_was_absorb
                        THEN AddAssign(st, "current_absorb_sum", length, checks)
                        ELSE StartAbsorbRun(st, length)
               IN  [s EXCEPT !.last_was_absorb = IF s.panicked THEN @ ELSE TRUE]
          ELSE LET s == IF ~st.last_was_absorb
                        THEN AddAssign(st, "current_squeeze_sum", length, checks)
                        ELSE StartSqueezeRun(st, length)
               IN  [s EXCEPT !.last_was_absorb = IF s.panicked THEN @ ELSE FALSE]

\* "Flush remaining operations": ABSORB is tested first, then SQUEEZE
FlushRemaining(words, absorb_sum, squeeze_sum) ==
    FlushPrevious(FlushPrevious(words, ABSORB_FLAG, absorb_sum),
                  SQUEEZE_FLAG, squeeze_sum)

\* the serialized words followed by the domain separator
RECURSIVE SerializeWords(_)
SerializeWords(words) ==
    IF Len(words) = 0 THEN << >>
    ELSE to_be_bytes(Head(words)) \o SerializeWords(Tail(words))

BuildInput(words, separator) == SerializeWords(words) \o separator

\* the aggregation loop over a whole pattern; a panic ends it
RECURSIVE AggregateFrom(_, _, _)
AggregateFrom(st, pattern, checks) ==
    IF st.panicked \/ Len(pattern) = 0 THEN st
    ELSE AggregateFrom(ProcessWord(st, Head(pattern), checks), Tail(pattern), checks)

\* compute_tag up to the buffer it hashes
compute_tag(pattern, separator, checks) ==
    LET st    == AggregateFrom(InitAgg, pattern, checks)
        words == FlushRemaining(st.encoded_words, st.current_absorb_sum,
                                st.current_squeeze_sum)
    IN  IF st.panicked
        THEN [panicked |-> TRUE, encoded_words |-> << >>, input_bytes |-> << >>]
        ELSE [panicked |-> FALSE, encoded_words |-> words,
              input_bytes |-> BuildInput(words, separator)]

(***************************************************************************)
(* Inputs                                                                  *)
(***************************************************************************)
Zeros(n) == [i \in 1..n |-> "0"]

\* the literals of main's test vectors
HexTest1 == <<"4","1","4","2","4","3","4","4">> \o Zeros(130)
HexTest3 == <<"4","1","4","2","4","3","4","4">> \o Zeros(56)
HexTest6b == <<"4","2","4","3","4","4","4","5">> \o Zeros(56)
HexTest7 == <<"4","1","4","2">> \o Zeros(134)
\* a prefixed literal with an odd number of digits, and a malformed one
HexPrefixed == <<"0","x","4","1","4","2","4","3","4">>
HexMalformed == <<"4","g">>

HexInputs == {HexTest1, HexTest3, HexTest6b, HexTest7, HexPrefixed, HexMalformed}

WordDomain ==
    { U32(0, 0), U32(1, 0),                   \* SQUEEZE(0), ABSORB(0)
      U32(0, 1), U32(1, 1), U32(1, 3),        \* SQUEEZE(1), ABSORB(1), ABSORB(3)
      U32(0, 1073741824),                     \* SQUEEZE(0x40000000)
      U32(1, LengthMask) }                    \* ABSORB(0x7FFFFFFF)

Patterns == UNION { [1..n -> WordDomain] : n \in 0..MaxPatternLen }

(***************************************************************************)
(* The state machine                                                       *)
(***************************************************************************)
Init ==
    /\ hex \in HexInputs
    /\ io_pattern \in Patterns
    /\ overflow_checks \in BOOLEAN
    /\ domain_separator = << >>
    /\ idx = 1
    /\ encoded_words = InitAgg.encoded_words
    /\ current_absorb_sum = InitAgg.current_absorb_sum
    /\ current_squeeze_sum = InitAgg.current_squeeze_sum
    /\ last_was_absorb = InitAgg.last_was_absorb
    /\ input_bytes = << >>
    /\ hash_input = << >>
    /\ pc = "hex_to_bytes"

AggState ==
    [encoded_words       |-> encoded_words,
     current_absorb_sum  |-> current_absorb_sum,
     current_squeeze_sum |-> current_squeeze_sum,
     last_was_absorb     |-> last_was_absorb,
     panicked            |-> FALSE]

\* main: let domain_separator = hex_to_bytes("...")
HexToBytes ==
    /\ pc = "hex_to_bytes"
    /\ LET r == hex_to_bytes(hex)
       IN  /\ domain_separator' = r.bytes
           /\ pc' = IF r.ok THEN "aggregate" ELSE "panicked"
    /\ UNCHANGED <<hex, io_pattern, overflow_checks, idx, encoded_words,
                   current_absorb_sum, current_squeeze_sum, last_was_absorb,
                   input_bytes, hash_input>>

\* compute_tag: one iteration of the aggregation loop
AggregateStep ==
    /\ pc = "aggregate"
    /\ idx <= Len(io_pattern)
    /\ LET st == ProcessWord(AggState, io_pattern[idx], overflow_checks)
       IN  /\ encoded_words' = st.encoded_words
           /\ current_absorb_sum' = st.current_absorb_sum
           /\ current_squeeze_sum' = st.current_squeeze_sum
           /\ last_was_absorb' = st.last_was_absorb
           /\ pc' = IF st.panicked THEN "panicked" ELSE "aggregate"
    /\ idx' = idx + 1
    /\ UNCHANGED <<hex, io_pattern, overflow_checks, domain_separator,
                   input_bytes, hash_input>>

\* compute_tag: the input is exhausted, flush the pending run
Flush ==
    /\ pc = "aggregate"
    /\ idx > Len(io_pattern)
    /\ encoded_words' = FlushRemaining(encoded_words, current_absorb_sum,
                                       current_squeeze_sum)
    /\ pc' = "serialize"
    /\ UNCHANGED <<hex, io_pattern, overflow_checks, domain_separator, idx,
                   current_absorb_sum, current_squeeze_sum, last_was_absorb,
                   input_bytes, hash_input>>

\* compute_tag: words to big-endian bytes, then the separator
Serialize ==
    /\ pc = "serialize"
    /\ input_bytes' = BuildInput(encoded_words, domain_separator)
    /\ pc' = "hash"
    /\ UNCHANGED <<hex, io_pattern, overflow_checks, domain_separator, idx,
                   encoded_words, current_absorb_sum, current_squeeze_sum,
                   last_was_absorb, hash_input>>

\* compute_tag: hasher.update(&input_bytes); the tag is derived from the digest
Hash ==
    /\ pc = "hash"
    /\ hash_input' = input_bytes
    /\ pc' = "done"
    /\ UNCHANGED <<hex, io_pattern, overflow_checks, domain_separator, idx,
                   encoded_words, current_absorb_sum, current_squeeze_sum,
                   last_was_absorb, input_bytes>>

Next == HexToBytes \/ AggregateStep \/ Flush \/ Serialize \/ Hash

Spec == Init /\ [][Next]_vars

(***************************************************************************)
(* Properties                                                              *)
(***************************************************************************)
ABSORB(n) == U32(1, n)

SQUEEZE(n) == U32(0, n)

Returned == pc = "done"

\* the lengths of a sequence of operations add up to at most 2^31 - 1
RECURSIVE SumFits(_, _)
SumFits(ops, acc) ==
    IF Len(ops) = 0 THEN TRUE
    ELSE /\ Head(ops).low <= LengthMask - acc
         /\ SumFits(Tail(ops), acc + Head(ops).low)

InsertAt(p, pos, w) == SubSeq(p, 1, pos - 1) \o <<w>> \o SubSeq(p, pos, Len(p))

\* what compute_tag did in this run, in the shape of the compute_tag operator
ThisCall ==
    [panicked |-> FALSE, encoded_words |-> encoded_words, input_bytes |-> hash_input]

\* C1: inserting ABSORB(0) or SQUEEZE(0) at any position of the io_pattern leaves
\* the aggregated words and the hash input unchanged.
C1_ZeroLengthElision ==
    Returned =>
        \A pos \in 1..(Len(io_pattern) + 1) : \A z \in {ABSORB(0), SQUEEZE(0)} :
            compute_tag(InsertAt(io_pattern, pos, z), domain_separator,
                        overflow_checks) = ThisCall

\* no two consecutive words of the same kind, and no word of length zero
Canonical(words) ==
    /\ \A k \in 1..Len(words) : words[k].low > 0
    /\ \A k \in 1..(Len(words) - 1) : words[k].msb # words[k + 1].msb

\* C2: the words compute_tag serializes are in canonical form: consecutive words
\* differ in kind and every word has a nonzero length (lengths within 31 bits).
C2_CanonicalForm ==
    (Returned /\ SumFits(io_pattern, 0)) => Canonical(encoded_words)

\* operations k and k+1 are nonzero, of one kind, and their lengths add up within 31 bits
Mergeable(p, k) ==
    /\ p[k].msb = p[k + 1].msb
    /\ p[k].low > 0
    /\ p[k + 1].low > 0
    /\ p[k].low <= LengthMask - p[k + 1].low

MergeAt(p, k) ==
    SubSeq(p, 1, k - 1) \o <<U32(p[k].msb, p[k].low + p[k + 1].low)>>
                        \o SubSeq(p, k + 2, Len(p))

ComputeTagEnded ==
    /\ pc \in {"done", "panicked"}
    /\ Len(domain_separator) = SeparatorLen

\* C3: replacing two adjacent nonzero operations of one kind by their sum gives
\* the same outcome: the same aggregated words and hash input, or a panic in both.
C3_MergeEquivalence ==
    ComputeTagEnded =>
        \A k \in 1..(Len(io_pattern) - 1) :
            Mergeable(io_pattern, k) =>
                LET r == compute_tag(MergeAt(io_pattern, k), domain_separator,
                                     overflow_checks)
                IN  IF pc = "panicked" THEN r.panicked ELSE r = ThisCall

C3_Witness ==
    /\ Returned
    /\ io_pattern = <<ABSORB(1), ABSORB(1), SQUEEZE(1)>>
    /\ encoded_words = <<ABSORB(2), SQUEEZE(1)>>
    /\ compute_tag(<<ABSORB(2), SQUEEZE(1)>>, domain_separator,
                   overflow_checks).input_bytes = hash_input

\* C4: aggregating the aggregated words again returns them unchanged.
C4_AggregationIdempotent ==
    (Returned /\ SumFits(io_pattern, 0)) =>
        compute_tag(encoded_words, domain_separator, overflow_checks) = ThisCall

\* a stretch of adjacent operations of one kind whose lengths add up beyond 2^31 - 1
RunOverflows(p) ==
    \E i \in 1..Len(p) : \E j \in i..Len(p) :
        /\ \A k \in i..j : p[k].msb = p[i].msb
        /\ ~SumFits(SubSeq(p, i, j), 0)

\* C5: a run whose total length leaves 31 bits makes compute_tag fail, it returns
\* no tag; two SQUEEZE(0x40000000) are never emitted as the word 0x80000000.
C5_OverflowRejected ==
    /\ Returned => ~RunOverflows(io_pattern)
    /\ ~(/\ pc \in {"serialize", "hash", "done"}
         /\ io_pattern = <<SQUEEZE(1073741824), SQUEEZE(1073741824)>>
         /\ encoded_words = <<U32(1, 0)>>)

\* the u32 whose big-endian bytes are b[at+1..at+4]
DecodeBE(b, at) ==
    U32(b[at + 1] \div 128,
        (b[at + 1] % 128) * 16777216 + b[at + 2] * 65536 + b[at + 3] * 256 + b[at + 4])

\* C6: the hash input is the 4-byte big-endian encoding of each aggregated word in
\* order, then the domain separator verbatim; its length is 4 * k + 64.
C6_SerializationLayout ==
    Returned =>
        LET k == Len(encoded_words)
        IN  /\ Len(hash_input) = 4 * k + SeparatorLen
            /\ Len(domain_separator) = SeparatorLen
            /\ \A i \in 1..Len(hash_input) : hash_input[i] \in 0..255
            /\ \A i \in 1..k : DecodeBE(hash_input, 4 * (i - 1)) = encoded_words[i]
            /\ \A j \in 1..SeparatorLen : hash_input[4 * k + j] = domain_separator[j]

C6_Witness ==
    /\ Returned
    /\ Len(encoded_words) >= 2
    /\ \E i \in 1..Len(encoded_words) : encoded_words[i].low >= 16777216
    /\ \E j \in 1..SeparatorLen : domain_separator[j] # 0

Separator32 == <<65, 66, 67, 68>> \o [i \in 1..28 |-> 0]

\* C7: for [ABSORB(3), SQUEEZE(1)] and the 32-byte separator 41424344 00..00 the
\* hashed buffer is the 36 bytes 80000003 00000001 and the 32 separator bytes.
C7_Separator32Bytes ==
    (Returned /\ hex = HexTest3 /\ io_pattern = <<ABSORB(3), SQUEEZE(1)>>) =>
        /\ Len(hash_input) = 36
        /\ hash_input = <<128, 0, 0, 3, 0, 0, 0, 1>> \o Separator32

\* C7, as the code has it: hex_to_bytes fills the 32 decoded bytes up to 64 with
\* zeros, and the hashed buffer is the 72 bytes 80000003 00000001, the 32 bytes
\* 41424344 00..00 and 32 further zero bytes.
C7_Separator64Bytes ==
    (Returned /\ hex = HexTest3 /\ io_pattern = <<ABSORB(3), SQUEEZE(1)>>) =>
        /\ Len(hash_input) = 72
        /\ hash_input = <<128, 0, 0, 3, 0, 0, 0, 1>> \o Separator32
                            \o [i \in 1..32 |-> 0]

C7_Witness ==
    /\ Returned
    /\ hex = HexTest3
    /\ Len(hex) = 64
    /\ io_pattern = <<ABSORB(3), SQUEEZE(1)>>
    /\ encoded_words = io_pattern

\* every call of compute_tag a second caller can make
OtherPatterns == Patterns

Separators == { r.bytes : r \in { x \in { hex_to_bytes(h) : h \in HexInputs } : x.ok } }

OtherCalls ==
    { c \in { [domain_separator |-> x[2],
               result |-> compute_tag(x[1], x[2], x[3])] :
                 x \in OtherPatterns \X Separators \X BOOLEAN } :
        ~c.result.panicked }

\* the canonical sequence of a pattern as section 3 of the specification defines
\* it: zero-length operations dropped, every maximal run of one kind merged
RECURSIVE CanonicalOf(_)
CanonicalOf(p) ==
    IF Len(p) = 0 THEN << >>
    ELSE LET h    == Head(p)
             rest == CanonicalOf(Tail(p))
         IN  IF h.low = 0 THEN rest
             ELSE IF Len(rest) > 0 /\ rest[1].msb = h.msb
                  THEN <<U32(h.msb, h.low + rest[1].low)>> \o Tail(rest)
                  ELSE <<h>> \o rest

\* the same calls with their canonical sequence, for patterns within 31 bits
OtherCanonicalCalls ==
    { [domain_separator |-> x[2],
       canonical        |-> CanonicalOf(x[1]),
       input_bytes      |-> compute_tag(x[1], x[2], x[3]).input_bytes] :
         x \in { q \in OtherPatterns : SumFits(q, 0) } \X Separators \X BOOLEAN }

\* C8: a call whose aggregated words differ from this call's, or whose 64-byte
\* domain separator differs, never has this call's hash input; the same holds
\* with the canonical sequences of the two patterns in place of the words when
\* the lengths stay within 31 bits.
C8_NoCollision ==
    Returned =>
        /\ \A c \in OtherCalls :
              (\/ c.result.encoded_words # encoded_words
               \/ c.domain_separator # domain_separator)
                  => c.result.input_bytes # hash_input
        /\ SumFits(io_pattern, 0) =>
              \A c \in OtherCanonicalCalls :
                  (\/ c.canonical # CanonicalOf(io_pattern)
                   \/ c.domain_separator # domain_separator)
                      => c.input_bytes # hash_input

C8_Witness ==
    /\ Returned
    /\ io_pattern = <<ABSORB(3), SQUEEZE(1)>>
    /\ hex = HexTest3
    /\ \E c \in OtherCalls :
          /\ c.result.encoded_words = encoded_words
          /\ c.domain_separator = hex_to_bytes(HexTest6b).bytes
    /\ \E c \in OtherCalls :
          /\ c.result.encoded_words # encoded_words
          /\ Len(c.result.encoded_words) = Len(encoded_words)
          /\ c.domain_separator = domain_separator

AllZeroLength(p) == \A k \in 1..Len(p) : p[k].low = 0

\* C9: when every operation of the io_pattern has length 0, nothing is aggregated
\* and the hash input is the domain separator alone.
C9_AllZeroInput ==
    (Returned /\ AllZeroLength(io_pattern)) =>
        /\ encoded_words = << >>
        /\ hash_input = domain_separator

C9_Witness ==
    /\ Returned
    /\ AllZeroLength(io_pattern)
    /\ \E i, j \in 1..Len(io_pattern) :
          io_pattern[i] = ABSORB(0) /\ io_pattern[j] = SQUEEZE(0)
    /\ hash_input = domain_separator

\* C10: at every point of the aggregation at most one of the two sums is nonzero,
\* a nonzero sum is of the kind last_was_absorb records, and the final flush
\* appends at most one word.
C10_OnePendingRun ==
    /\ ~(GtZero(current_absorb_sum) /\ GtZero(current_squeeze_sum))
    /\ GtZero(current_absorb_sum) => last_was_absorb
    /\ GtZero(current_squeeze_sum) => ~last_was_absorb
    /\ pc = "aggregate" =>
          Len(FlushRemaining(encoded_words, current_absorb_sum, current_squeeze_sum))
              <= Len(encoded_words) + 1

C10_Witness ==
    /\ pc = "aggregate"
    /\ idx > Len(io_pattern)
    /\ Len(encoded_words) >= 2
    /\ GtZero(current_absorb_sum)
    /\ last_was_absorb

====
